---- MODULE Spec2Model ----
(***************************************************************************)
(* Loan-capacity engine of pret-immo (src/components/LoanCapacity).        *)
(*                                                                         *)
(* The engine computes on JavaScript numbers, i.e. IEEE-754 binary64       *)
(* values.  The model keeps that arithmetic: a number is a sign, a 53-bit  *)
(* significand and a binary exponent, and every operation rounds to        *)
(* nearest, ties to even, exactly as the source's +, -, * and / do.        *)
(* Significands are held as little-endian sequences of 15-bit limbs so     *)
(* that every intermediate product stays inside the integers of the        *)
(* model checker.  Exponents are unbounded: the inputs of the model stay   *)
(* far from the overflow and subnormal ranges of binary64.                 *)
(*                                                                         *)
(* Intermediate results are bound with Let, which evaluates its first      *)
(* argument once and hands the value to the body.                          *)
(***************************************************************************)
EXTENDS Integers, Sequences, FiniteSets, TLC

\* F applied to the value of v
Let(v, F(_)) == CHOOSE r \in {F(w) : w \in {v}} : TRUE

\* ------------------------------------------------------------------------
\* Natural numbers of arbitrary size (little-endian limbs, no leading zero)
\* ------------------------------------------------------------------------

LimbBits == 15

Base == 2^LimbBits

MantissaBits == 53

\* a function over 1..n as a sequence
Tuple(f) == f \o <<>>

Limb(a, i) == IF i >= 1 /\ i <= Len(a) THEN a[i] ELSE 0

MinInt(x, y) == IF x <= y THEN x ELSE y

MaxInt(x, y) == IF x >= y THEN x ELSE y

\* the highest position in lo..hi where a is not 0, or 0 if there is none
RECURSIVE TopLimb(_, _, _)
TopLimb(a, lo, hi) ==
    IF lo > hi THEN 0
    ELSE IF lo = hi THEN (IF a[lo] # 0 THEN lo ELSE 0)
    ELSE Let(TopLimb(a, (lo + hi) \div 2 + 1, hi),
             LAMBDA t : IF t # 0 THEN t ELSE TopLimb(a, lo, (lo + hi) \div 2))

BTrim(a) == SubSeq(a, 1, TopLimb(a, 1, Len(a)))

RECURSIVE BFromInt(_)
BFromInt(n) == IF n = 0 THEN <<>> ELSE <<n % Base>> \o BFromInt(n \div Base)

\* positions lo..hi of the digit values s brought into 0..Base-1, with the
\* carry (or borrow, when negative) c coming in and the one going out
RECURSIVE Ripple(_, _, _, _)
Ripple(s, lo, hi, c) ==
    IF lo > hi THEN [limbs |-> <<>>, carry |-> c]
    ELSE IF lo = hi
    THEN [limbs |-> <<(s[lo] + c) % Base>>, carry |-> (s[lo] + c) \div Base]
    ELSE Let(Ripple(s, lo, (lo + hi) \div 2, c), LAMBDA low :
         Let(Ripple(s, (lo + hi) \div 2 + 1, hi, low.carry), LAMBDA high :
             [limbs |-> low.limbs \o high.limbs, carry |-> high.carry]))

Propagate(s) ==
    Let(Ripple(s, 1, Len(s), 0), LAMBDA r :
        BTrim(r.limbs \o (IF r.carry > 0 THEN <<r.carry>> ELSE <<>>)))

BAdd(a, b) ==
    Propagate(Tuple([i \in 1..MaxInt(Len(a), Len(b)) |-> Limb(a, i) + Limb(b, i)]))

\* a - b for a >= b
BSub(a, b) == Propagate(Tuple([i \in 1..Len(a) |-> a[i] - Limb(b, i)]))

\* -1, 0, 1 as a < b, a = b, a > b on the positions lo..hi
RECURSIVE BCmpRange(_, _, _, _)
BCmpRange(a, b, lo, hi) ==
    IF lo > hi THEN 0
    ELSE IF lo = hi
    THEN (IF a[lo] < b[lo] THEN -1 ELSE IF a[lo] > b[lo] THEN 1 ELSE 0)
    ELSE Let(BCmpRange(a, b, (lo + hi) \div 2 + 1, hi),
             LAMBDA t : IF t # 0 THEN t ELSE BCmpRange(a, b, lo, (lo + hi) \div 2))

BCmp(a, b) ==
    IF Len(a) < Len(b) THEN -1
    ELSE IF Len(a) > Len(b) THEN 1
    ELSE BCmpRange(a, b, 1, Len(a))

\* a * k for 0 <= k < Base
BMulSmall(a, k) ==
    IF k = 0 THEN <<>> ELSE Propagate(Tuple([i \in 1..Len(a) |-> a[i] * k]))

\* a * (the limbs lo..hi of b, in their places), by halving the range
RECURSIVE BMulRange(_, _, _, _)
BMulRange(a, b, lo, hi) ==
    IF lo = hi
    THEN IF b[lo] = 0 THEN <<>> ELSE [i \in 1..(lo - 1) |-> 0] \o BMulSmall(a, b[lo])
    ELSE BAdd(BMulRange(a, b, lo, (lo + hi) \div 2),
              BMulRange(a, b, (lo + hi) \div 2 + 1, hi))

BMul(a, b) == IF a = <<>> \/ b = <<>> THEN <<>> ELSE BMulRange(a, b, 1, Len(b))

\* a^n, by squaring
RECURSIVE BPow(_, _)
BPow(a, n) ==
    IF n = 0 THEN <<1>>
    ELSE IF n = 1 THEN a
    ELSE Let(BPow(a, n \div 2), LAMBDA h :
             BMul(BMul(h, h), IF n % 2 = 1 THEN a ELSE <<1>>))

RECURSIVE IntBitLen(_)
IntBitLen(n) == IF n = 0 THEN 0 ELSE 1 + IntBitLen(n \div 2)

BitLen(a) == IF a = <<>> THEN 0 ELSE LimbBits * (Len(a) - 1) + IntBitLen(a[Len(a)])

\* a * Base^d * 2^r for 0 <= r < LimbBits
ShlLimbs(a, d, r) ==
    BTrim(Tuple([j \in 1..(Len(a) + d + 1) |->
                   ((Limb(a, j - d) * 2^r) % Base)
                   + (Limb(a, j - d - 1) \div 2^(LimbBits - r))]))

\* a * 2^n
BShl(a, n) == ShlLimbs(a, n \div LimbBits, n % LimbBits)

\* floor(a / (Base^d * 2^r)) for 0 <= r < LimbBits
ShrLimbs(a, d, r) ==
    BTrim(Tuple([j \in 1..(Len(a) - d) |->
                   (a[d + j] \div 2^r) + (Limb(a, d + j + 1) % 2^r) * 2^(LimbBits - r)]))

\* floor(a / 2^n)
BShr(a, n) == ShrLimbs(a, n \div LimbBits, n % LimbBits)

\* bit i of a (bit 0 is the lowest)
BBit(a, i) == (Limb(a, i \div LimbBits + 1) \div 2^(i % LimbBits)) % 2

\* TRUE iff a is a multiple of 2^n
BLowZero(a, n) ==
    /\ \A j \in 1..MinInt(n \div LimbBits, Len(a)) : a[j] = 0
    /\ Limb(a, n \div LimbBits + 1) % 2^(n % LimbBits) = 0

\* one step of the long division: the largest quotient limb q' <= q with
\* q' * d <= r, and what it leaves of r; the estimate q is at most 2 too big
\* when the top limb of d is at least Base / 2
RECURSIVE QStep(_, _, _)
QStep(r, d, q) ==
    Let(BMulSmall(d, q), LAMBDA p :
        IF BCmp(p, r) > 0 THEN QStep(r, d, q - 1) ELSE [q |-> q, r |-> BSub(r, p)])

\* the estimate of the next quotient limb from the top two limbs of r
QEstimate(r, d) ==
    MinInt((Limb(r, Len(d) + 1) * Base + Limb(r, Len(d))) \div d[Len(d)], Base - 1)

RECURSIVE BDivLoop(_, _, _, _, _)
BDivLoop(n, d, i, r, q) ==
    IF i = 0 THEN [q |-> BTrim(q), r |-> r]
    ELSE Let(BTrim(<<n[i]>> \o r), LAMBDA r1 :
         Let(QStep(r1, d, QEstimate(r1, d)), LAMBDA st :
             BDivLoop(n, d, i - 1, st.r, <<st.q>> \o q)))

\* the division of n by d when the top limb of d is at least Base / 2: the
\* limbs of n above the first quotient limb start the remainder
DivScaled(n, d, first) ==
    Let(BDivLoop(n, d, first, SubSeq(n, first + 1, Len(n)), <<>>), LAMBDA res :
        [q |-> res.q, exact |-> res.r = <<>>])

\* quotient q = floor(n / d) and whether the division is exact, for d > 0
BDivMod(n, d) ==
    Let(LimbBits - IntBitLen(d[Len(d)]), LAMBDA s :
    Let(BShl(d, s), LAMBDA ds :
    Let(BShl(n, s), LAMBDA ns :
        DivScaled(ns, ds, MaxInt(Len(ns) - Len(ds) + 1, 0)))))

\* ------------------------------------------------------------------------
\* JavaScript numbers: IEEE-754 binary64, round to nearest, ties to even
\* ------------------------------------------------------------------------
\* A finite number is (-1)^s * m * 2^e with m = 0 or 2^52 <= m < 2^53
\* (m as limbs), so equal numbers of equal sign are equal records.

Finite(s, m, e) == [k |-> "fin", s |-> s, m |-> m, e |-> e]

FZero(s) == Finite(s, <<>>, 0)

FInf(s) == [k |-> "inf", s |-> s, m |-> <<>>, e |-> 0]

FNaN == [k |-> "nan", s |-> 0, m |-> <<>>, e |-> 0]

IsZero(x) == x.k = "fin" /\ x.m = <<>>

IsNaN(x) == x.k = "nan"

\* the smallest and the largest significand
MinMantissa == BShl(<<1>>, MantissaBits - 1)

MaxMantissa == BSub(BShl(<<1>>, MantissaBits), <<1>>)

\* (-1)^s * q * 2^e, or the next number away from zero when up
Bump(s, q, e, up) ==
    IF ~up THEN Finite(s, q, e)
    ELSE IF q = MaxMantissa THEN Finite(s, MinMantissa, e + 1)
    ELSE Finite(s, BAdd(q, <<1>>), e)

\* FRound for an M that is sh bits longer than a significand
RoundShift(s, M, e, sticky, sh) ==
    IF sh <= 0 THEN Finite(s, BShl(M, -sh), e + sh)
    ELSE Let(BShr(M, sh), LAMBDA q :
             Bump(s, q, e + sh,
                  BBit(M, sh - 1) = 1 /\ (sticky \/ ~BLowZero(M, sh - 1) \/ q[1] % 2 = 1)))

\* the number nearest to (-1)^s * (M + t) * 2^e, where M > 0 and 0 <= t < 1
\* is a discarded tail that is non-zero iff sticky
FRound(s, M, e, sticky) == RoundShift(s, M, e, sticky, BitLen(M) - MantissaBits)

\* an integer literal or integer-valued variable, |n| < 2^31
FInt(n) ==
    IF n = 0 THEN FZero(0)
    ELSE FRound(IF n < 0 THEN 1 ELSE 0, BFromInt(IF n < 0 THEN -n ELSE n), 0, FALSE)

FNeg(x) == [x EXCEPT !.s = 1 - x.s]

\* -1, 0, 1 for |x| < |y|, =, > on finite numbers
MagCmp(x, y) ==
    IF x.m = <<>> /\ y.m = <<>> THEN 0
    ELSE IF x.m = <<>> THEN -1
    ELSE IF y.m = <<>> THEN 1
    ELSE IF x.e < y.e THEN -1
    ELSE IF x.e > y.e THEN 1
    ELSE BCmp(x.m, y.m)

\* x < y as JavaScript evaluates it (false when either is NaN)
FLt(x, y) ==
    IF x.k = "nan" \/ y.k = "nan" THEN FALSE
    ELSE IF x.k = "inf" THEN x.s = 1 /\ ~(y.k = "inf" /\ y.s = 1)
    ELSE IF y.k = "inf" THEN y.s = 0
    ELSE IF IsZero(x) /\ IsZero(y) THEN FALSE
    ELSE IF x.s # y.s THEN x.s = 1
    ELSE MagCmp(x, y) = (IF x.s = 0 THEN -1 ELSE 1)

\* x === y
FEq(x, y) ==
    IF x.k = "nan" \/ y.k = "nan" THEN FALSE
    ELSE IF IsZero(x) /\ IsZero(y) THEN TRUE
    ELSE x = y

FLe(x, y) == FLt(x, y) \/ FEq(x, y)

FGt(x, y) == FLt(y, x)

FGe(x, y) == FLe(y, x)

\* big + other or big - other (big >= other), rounded; an exact zero is +0
Combine(s, same, big, other, e, sticky) ==
    Let(IF same THEN BAdd(big, other) ELSE BSub(big, other), LAMBDA M :
        IF M = <<>> THEN FZero(0) ELSE FRound(s, M, e, sticky))

\* the sum of two finite non-zero numbers with |x| >= |y|; when far, y is
\* below a quarter of the last place of x and only leaves a sticky tail
AddAligned(x, y, far) ==
    Combine(x.s, x.s = y.s,
            BShl(x.m, IF far THEN 2 ELSE x.e - y.e),
            IF ~far THEN y.m ELSE IF x.s = y.s THEN <<>> ELSE <<1>>,
            IF far THEN x.e - 2 ELSE y.e,
            far)

AddOrdered(x, y) == AddAligned(x, y, x.e - y.e > MantissaBits + 2)

AddSwapped(x, y, swap) == AddOrdered(IF swap THEN y ELSE x, IF swap THEN x ELSE y)

\* x + y
FAdd(x, y) ==
    IF x.k = "nan" \/ y.k = "nan" THEN FNaN
    ELSE IF x.k = "inf"
         THEN IF y.k = "inf" /\ y.s # x.s THEN FNaN ELSE x
    ELSE IF y.k = "inf" THEN y
    ELSE IF IsZero(x) /\ IsZero(y) THEN FZero(IF x.s = 1 /\ y.s = 1 THEN 1 ELSE 0)
    ELSE IF IsZero(x) THEN y
    ELSE IF IsZero(y) THEN x
    ELSE AddSwapped(x, y, MagCmp(x, y) < 0)

\* x - y
FSub(x, y) == FAdd(x, FNeg(y))

\* x * y
FMul(x, y) ==
    IF x.k = "nan" \/ y.k = "nan" THEN FNaN
    ELSE IF x.k = "inf" \/ y.k = "inf"
         THEN IF IsZero(x) \/ IsZero(y) THEN FNaN ELSE FInf(IF x.s = y.s THEN 0 ELSE 1)
    ELSE IF IsZero(x) \/ IsZero(y) THEN FZero(IF x.s = y.s THEN 0 ELSE 1)
    ELSE FRound(IF x.s = y.s THEN 0 ELSE 1, BMul(x.m, y.m), x.e + y.e, FALSE)

\* x / y
FDiv(x, y) ==
    IF x.k = "nan" \/ y.k = "nan" THEN FNaN
    ELSE IF x.k = "inf"
         THEN IF y.k = "inf" THEN FNaN ELSE FInf(IF x.s = y.s THEN 0 ELSE 1)
    ELSE IF y.k = "inf" THEN FZero(IF x.s = y.s THEN 0 ELSE 1)
    ELSE IF IsZero(y)
         THEN IF IsZero(x) THEN FNaN ELSE FInf(IF x.s = y.s THEN 0 ELSE 1)
    ELSE IF IsZero(x) THEN FZero(IF x.s = y.s THEN 0 ELSE 1)
    ELSE Let(BDivMod(BShl(x.m, MantissaBits + 3), y.m), LAMBDA dm :
             FRound(IF x.s = y.s THEN 0 ELSE 1, dm.q,
                    x.e - y.e - (MantissaBits + 3), ~dm.exact))

\* Math.max(x, y)
MathMax(x, y) ==
    IF x.k = "nan" \/ y.k = "nan" THEN FNaN
    ELSE IF IsZero(x) /\ IsZero(y) THEN FZero(IF x.s = 1 /\ y.s = 1 THEN 1 ELSE 0)
    ELSE IF FLt(x, y) THEN y ELSE x

RECURSIVE IntTrailingZeros(_)
IntTrailingZeros(n) == IF n % 2 = 1 THEN 0 ELSE 1 + IntTrailingZeros(n \div 2)

\* the lowest position where a > 0 is not 0
LowLimb(a) == CHOOSE i \in 1..Len(a) : a[i] # 0 /\ \A j \in 1..(i - 1) : a[j] = 0

\* the number of zero bits below the lowest set bit of a > 0
TrailingZeros(a) ==
    Let(LowLimb(a), LAMBDA low : LimbBits * (low - 1) + IntTrailingZeros(a[low]))

\* ------------------------------------------------------------------------
\* State
\* ------------------------------------------------------------------------
\* The form values and the rate mode are the component's state (one input
\* snapshot); view is what one evaluation of the component derives from
\* them; call is one direct application of an engine function.  libm is
\* the last-place behaviour of the build's Math.pow.

VARIABLES monthlyIncome, interestRate, durationYears, ratePeriods, rateMode,
          libm, view, call

vars == <<monthlyIncome, interestRate, durationYears, ratePeriods, rateMode,
          libm, view, call>>

\* 2^k / P for k = bits, cut to a significand, times 2^(e - k): the number
\* next below the exact quotient, or the one next above it when the build
\* rounds up and the quotient is not a number itself
PowQuotient(dm, sh, e) ==
    Bump(0, BShr(dm.q, sh), e + sh,
         libm = "up" /\ (~dm.exact \/ ~BLowZero(dm.q, sh)))

PowReciprocal(P, bits, e) ==
    Let(BDivMod(BShl(<<1>>, bits), P), LAMBDA dm :
        PowQuotient(dm, BitLen(dm.q) - MantissaBits, e - bits))

\* Math.pow(x, -n) for finite x >= 1 and an integer n > 0.  ECMAScript leaves
\* the result implementation-approximated: the build returns one of the two
\* numbers that bracket the exact power (both coincide when it is exact).
MathPowNeg(x, n) ==
    Let(TrailingZeros(x.m), LAMBDA t :
    Let(BPow(BShr(x.m, t), n), LAMBDA P :
        PowReciprocal(P, BitLen(P) + MantissaBits + 2, -((x.e + t) * n))))

\* ------------------------------------------------------------------------
\* Utility functions
\* ------------------------------------------------------------------------

DEBT_TO_INCOME_RATIO == FDiv(FInt(1), FInt(3))

\* the number a form value stands for; the model holds form values as
\* integers of hundredths (380 is 3.8 or "3.8")
Number(v) == FDiv(FInt(v), FInt(100))

\* the number a decimal text denotes: digits / 10^places, rounded once
Decimal(digits, places) ==
    FDiv(FInt(digits), FRound(0, BPow(<<10>>, places), 0, FALSE))

DEFAULT_RATE == 380

toMonthlyRate(annualRate) ==
    IF FGt(annualRate, FZero(0))
    THEN FDiv(FDiv(annualRate, FInt(100)), FInt(12))
    ELSE FZero(0)

RECURSIVE SumYearsFrom(_, _)
SumYearsFrom(periods, i) ==
    IF i > Len(periods) THEN 0 ELSE periods[i].years + SumYearsFrom(periods, i + 1)

sumPeriodYears(periods) == SumYearsFrom(periods, 1)

\* ------------------------------------------------------------------------
\* Calculation functions
\* ------------------------------------------------------------------------

\* a variant without the test of the sign
calculateMaxMonthlyInstallment_unguarded(income) == FMul(income, DEBT_TO_INCOME_RATIO)

calculateMaxMonthlyInstallment(income) ==
    IF FGt(income, FZero(0)) THEN FMul(income, DEBT_TO_INCOME_RATIO) ELSE FZero(0)

\* a variant that ignores the interest: the installments, undiscounted
calculateLoanPrincipalWithSingleRate_undiscounted(maxInstallment, annualRate, totalMonths) ==
    IF totalMonths <= 0 \/ FLe(maxInstallment, FZero(0)) THEN FZero(0)
    ELSE FMul(maxInstallment, FInt(totalMonths))

\* a variant whose zero-rate branch counts years where the source counts months
calculateLoanPrincipalWithSingleRate_years(maxInstallment, annualRate, totalMonths) ==
    IF totalMonths <= 0 \/ FLe(maxInstallment, FZero(0)) THEN FZero(0)
    ELSE Let(toMonthlyRate(annualRate), LAMBDA monthlyRate :
         IF FEq(monthlyRate, FZero(0))
         THEN FMul(maxInstallment, FInt(totalMonths \div 12))
         ELSE Let(MathPowNeg(FAdd(FInt(1), monthlyRate), totalMonths), LAMBDA pow :
              Let(FDiv(monthlyRate, FSub(FInt(1), pow)), LAMBDA denominator :
                  FDiv(maxInstallment, denominator))))

calculateLoanPrincipalWithSingleRate(maxInstallment, annualRate, totalMonths) ==
    IF totalMonths <= 0 \/ FLe(maxInstallment, FZero(0)) THEN FZero(0)
    ELSE Let(toMonthlyRate(annualRate), LAMBDA monthlyRate :
         IF FEq(monthlyRate, FZero(0))
         THEN FMul(maxInstallment, FInt(totalMonths))
         ELSE Let(MathPowNeg(FAdd(FInt(1), monthlyRate), totalMonths), LAMBDA pow :
              Let(FDiv(monthlyRate, FSub(FInt(1), pow)), LAMBDA denominator :
                  FDiv(maxInstallment, denominator))))

\* one pass of the inner loop of the multi-rate walk: st holds pvFactorSum,
\* discountFactor and monthsCount
\* a variant that adds the factor before discounting it (payments at the
\* start of each month)
DiscountMonth_inAdvance(monthlyRate, st) ==
    [pvFactorSum |-> FAdd(st.pvFactorSum, st.discountFactor),
     discountFactor |-> FDiv(st.discountFactor, FAdd(FInt(1), monthlyRate)),
     monthsCount |-> st.monthsCount + 1]

DiscountMonth(monthlyRate, st) ==
    Let(FDiv(st.discountFactor, FAdd(FInt(1), monthlyRate)), LAMBDA discountFactor :
        [pvFactorSum |-> FAdd(st.pvFactorSum, discountFactor),
         discountFactor |-> discountFactor,
         monthsCount |-> st.monthsCount + 1])

\* the passes lo <= m < hi of the inner loop, which ends at the first pass
\* that finds monthsCount >= totalMonths; the range is walked by halves
RECURSIVE DiscountMonths(_, _, _, _, _)
DiscountMonths(lo, hi, monthlyRate, totalMonths, st) ==
    IF lo >= hi \/ st.monthsCount >= totalMonths THEN st
    ELSE IF hi = lo + 1 THEN DiscountMonth(monthlyRate, st)
    ELSE Let(DiscountMonths(lo, (lo + hi) \div 2, monthlyRate, totalMonths, st),
             LAMBDA half :
                 DiscountMonths((lo + hi) \div 2, hi, monthlyRate, totalMonths, half))

\* a variant of the outer loop that starts every period at discount factor 1
RECURSIVE DiscountPeriods_reset(_, _, _, _)
DiscountPeriods_reset(periods, i, totalMonths, st) ==
    IF i > Len(periods) THEN st
    ELSE Let(toMonthlyRate(Number(periods[i].rate)), LAMBDA monthlyRate :
         Let(DiscountMonths(0, periods[i].years * 12, monthlyRate, totalMonths,
                            [st EXCEPT !.discountFactor = FInt(1)]),
             LAMBDA st1 :
                 IF st1.monthsCount >= totalMonths THEN st1
                 ELSE DiscountPeriods_reset(periods, i + 1, totalMonths, st1)))

\* the outer loop from the i-th period on
RECURSIVE DiscountPeriods(_, _, _, _)
DiscountPeriods(periods, i, totalMonths, st) ==
    IF i > Len(periods) THEN st
    ELSE Let(toMonthlyRate(Number(periods[i].rate)), LAMBDA monthlyRate :
         Let(DiscountMonths(0, periods[i].years * 12, monthlyRate, totalMonths, st),
             LAMBDA st1 :
                 IF st1.monthsCount >= totalMonths THEN st1
                 ELSE DiscountPeriods(periods, i + 1, totalMonths, st1)))

calculateLoanPrincipalWithMultipleRates(maxInstallment, periods, totalMonths) ==
    IF totalMonths <= 0 \/ FLe(maxInstallment, FZero(0)) \/ Len(periods) = 0
    THEN FZero(0)
    ELSE FMul(maxInstallment,
              DiscountPeriods(periods, 1, totalMonths,
                              [pvFactorSum |-> FZero(0), discountFactor |-> FInt(1),
                               monthsCount |-> 0]).pvFactorSum)

\* what a function hands back: a value, or the exception it raises
Returns(v) == [threw |-> "", val |-> v]

Throws(e) == [threw |-> e, val |-> <<>>]

\* the passes lo <= m < hi of the inner loop of the rate expansion, which
\* ends at the first pass that finds totalMonths entries
\* a variant whose inner loop does not test monthIdx < totalMonths
PushMonths_uncapped(lo, hi, rate, totalMonths, monthlyRates) ==
    monthlyRates \o Tuple([m \in 1..(hi - lo) |-> rate])

RECURSIVE PushMonths(_, _, _, _, _)
PushMonths(lo, hi, rate, totalMonths, monthlyRates) ==
    IF lo >= hi \/ Len(monthlyRates) >= totalMonths THEN monthlyRates
    ELSE IF hi = lo + 1 THEN Append(monthlyRates, rate)
    ELSE Let(PushMonths(lo, (lo + hi) \div 2, rate, totalMonths, monthlyRates),
             LAMBDA half : PushMonths((lo + hi) \div 2, hi, rate, totalMonths, half))

\* a variant that pushes the periods' rates per year, as fractions
RECURSIVE PushPeriods_annual(_, _, _, _)
PushPeriods_annual(periods, i, totalMonths, monthlyRates) ==
    IF i > Len(periods) THEN monthlyRates
    ELSE Let(FDiv(Number(periods[i].rate), FInt(100)), LAMBDA rate :
         Let(PushMonths(0, periods[i].years * 12, rate, totalMonths, monthlyRates),
             LAMBDA pushed :
                 IF Len(pushed) >= totalMonths THEN pushed
                 ELSE PushPeriods_annual(periods, i + 1, totalMonths, pushed)))

RECURSIVE PushPeriods(_, _, _, _)
PushPeriods(periods, i, totalMonths, monthlyRates) ==
    IF i > Len(periods) THEN monthlyRates
    ELSE Let(toMonthlyRate(Number(periods[i].rate)), LAMBDA rate :
         Let(PushMonths(0, periods[i].years * 12, rate, totalMonths, monthlyRates),
             LAMBDA pushed :
                 IF Len(pushed) >= totalMonths THEN pushed
                 ELSE PushPeriods(periods, i + 1, totalMonths, pushed)))

\* monthlyRates.length = totalMonths raises a RangeError for a negative length
buildMonthlyRatesArray(mode, periods, singleRate, totalMonths) ==
    IF mode = "multi"
    THEN Returns(PushPeriods(periods, 1, totalMonths, <<>>))
    ELSE IF totalMonths < 0
         THEN Throws("RangeError")
         ELSE Let(toMonthlyRate(singleRate), LAMBDA rate :
                  Returns(Tuple([i \in 1..totalMonths |-> rate])))

\* a variant that goes on with the last rate past the end of the vector
RateOrZero_last(monthlyRates, month) ==
    IF monthlyRates = <<>> THEN FZero(0)
    ELSE monthlyRates[MinInt(month, Len(monthlyRates))]

\* monthlyRates[month - 1] || 0
RateOrZero(monthlyRates, month) ==
    IF month > Len(monthlyRates) THEN FZero(0)
    ELSE IF IsNaN(monthlyRates[month]) \/ IsZero(monthlyRates[month]) THEN FZero(0)
    ELSE monthlyRates[month]

AmortizationRow(month, capitalBefore, interest, amortization, installment, capitalAfter) ==
    [month |-> month, capitalBefore |-> capitalBefore, interest |-> interest,
     amortization |-> amortization, installment |-> installment,
     capitalAfter |-> capitalAfter]

\* a variant of the pass that floors the amortization at zero
TableMonth_clamped(month, maxInstallment, monthlyRates, st) ==
    Let(FMul(st.remainingCapital, RateOrZero(monthlyRates, month)), LAMBDA interest :
    Let(MathMax(FSub(maxInstallment, interest), FZero(0)), LAMBDA amortization :
    Let(MathMax(FSub(st.remainingCapital, amortization), FZero(0)), LAMBDA capitalAfter :
        [table |-> Append(st.table,
                          AmortizationRow(month, st.remainingCapital, interest,
                                          amortization, maxInstallment, capitalAfter)),
         remainingCapital |-> capitalAfter,
         broke |-> FLe(capitalAfter, FZero(0))])))

\* a variant of the pass that carries capitalBefore - installment to the next
\* month
TableMonth_unchained(month, maxInstallment, monthlyRates, st) ==
    Let(FMul(st.remainingCapital, RateOrZero(monthlyRates, month)), LAMBDA interest :
    Let(FSub(maxInstallment, interest), LAMBDA amortization :
    Let(MathMax(FSub(st.remainingCapital, amortization), FZero(0)), LAMBDA capitalAfter :
        [table |-> Append(st.table,
                          AmortizationRow(month, st.remainingCapital, interest,
                                          amortization, maxInstallment, capitalAfter)),
         remainingCapital |-> FSub(st.remainingCapital, maxInstallment),
         broke |-> FLe(capitalAfter, FZero(0))])))

\* a variant of the pass without the break
TableMonth_unbroken(month, maxInstallment, monthlyRates, st) ==
    Let(FMul(st.remainingCapital, RateOrZero(monthlyRates, month)), LAMBDA interest :
    Let(FSub(maxInstallment, interest), LAMBDA amortization :
    Let(MathMax(FSub(st.remainingCapital, amortization), FZero(0)), LAMBDA capitalAfter :
        [table |-> Append(st.table,
                          AmortizationRow(month, st.remainingCapital, interest,
                                          amortization, maxInstallment, capitalAfter)),
         remainingCapital |-> capitalAfter,
         broke |-> FALSE])))

\* one pass of the loop of buildAmortizationTable: st holds table,
\* remainingCapital and whether the loop has hit its break
TableMonth(month, maxInstallment, monthlyRates, st) ==
    Let(FMul(st.remainingCapital, RateOrZero(monthlyRates, month)), LAMBDA interest :
    Let(FSub(maxInstallment, interest), LAMBDA amortization :
    Let(MathMax(FSub(st.remainingCapital, amortization), FZero(0)), LAMBDA capitalAfter :
        [table |-> Append(st.table,
                          AmortizationRow(month, st.remainingCapital, interest,
                                          amortization, maxInstallment, capitalAfter)),
         remainingCapital |-> capitalAfter,
         broke |-> FLe(capitalAfter, FZero(0))])))

\* the passes lo <= month <= hi of the loop, walked by halves
RECURSIVE TableMonths(_, _, _, _, _)
TableMonths(lo, hi, maxInstallment, monthlyRates, st) ==
    IF lo > hi \/ st.broke THEN st
    ELSE IF lo = hi THEN TableMonth(lo, maxInstallment, monthlyRates, st)
    ELSE Let(TableMonths(lo, (lo + hi) \div 2, maxInstallment, monthlyRates, st),
             LAMBDA half :
                 TableMonths((lo + hi) \div 2 + 1, hi, maxInstallment, monthlyRates, half))

\* a variant that does not test the principal
buildAmortizationTable_anyPrincipal(maxLoanPrincipal, maxInstallment, monthlyRates, totalMonths) ==
    IF totalMonths <= 0 THEN <<>>
    ELSE TableMonths(1, totalMonths, maxInstallment, monthlyRates,
                     [table |-> <<>>, remainingCapital |-> maxLoanPrincipal,
                      broke |-> FALSE]).table

buildAmortizationTable(maxLoanPrincipal, maxInstallment, monthlyRates, totalMonths) ==
    IF FLe(maxLoanPrincipal, FZero(0)) \/ totalMonths <= 0 THEN <<>>
    ELSE TableMonths(1, totalMonths, maxInstallment, monthlyRates,
                     [table |-> <<>>, remainingCapital |-> maxLoanPrincipal,
                      broke |-> FALSE]).table

\* ------------------------------------------------------------------------
\* The component: one evaluation of LoanCapacity on the current snapshot
\* ------------------------------------------------------------------------

totalMonths == durationYears * 12

periodsActive == Len(ratePeriods) > 0

usePeriods == rateMode = "multi" /\ periodsActive

periodsYearsTotal == IF usePeriods THEN sumPeriodYears(ratePeriods) ELSE 0

\* a variant that never reports a mismatch
periodsMismatch_never == FALSE

periodsMismatch == usePeriods /\ periodsYearsTotal # durationYears

maxMonthlyInstallment == calculateMaxMonthlyInstallment(Number(monthlyIncome))

\* the branch the maxLoanPrincipal memo takes
principalMode == IF usePeriods /\ ~periodsMismatch THEN "multi" ELSE "single"

maxLoanPrincipal(installment) ==
    IF FLe(installment, FZero(0)) THEN FZero(0)
    ELSE IF principalMode = "multi"
         THEN calculateLoanPrincipalWithMultipleRates(installment, ratePeriods, totalMonths)
         ELSE calculateLoanPrincipalWithSingleRate(installment, Number(interestRate),
                                                   totalMonths)

\* a variant that passes on the requested mode, mismatch or not
ratesMode_requested == IF usePeriods THEN "multi" ELSE "single"

\* the mode the monthlyRates memo passes on
ratesMode == IF usePeriods /\ ~periodsMismatch THEN "multi" ELSE "single"

monthlyRates ==
    buildMonthlyRatesArray(ratesMode, ratePeriods, Number(interestRate), totalMonths)

NotRendered == [rendered |-> FALSE]

NoCall == [fn |-> "none"]

\* what an evaluation shows: the memos, or the exception that aborted it
Rendered(installment, principal, rates) ==
    IF rates.threw # ""
    THEN [rendered |-> TRUE, threw |-> rates.threw]
    ELSE [rendered |-> TRUE, threw |-> "",
          totalMonths |-> totalMonths,
          principalMode |-> principalMode,
          ratesMode |-> ratesMode,
          maxMonthlyInstallment |-> installment,
          maxLoanPrincipal |-> principal,
          monthlyRates |-> rates.val,
          amortizationTable |->
              buildAmortizationTable(principal, installment, rates.val, totalMonths)]

\* One evaluation: the memos are computed once each, in the order of the
\* source.
Render ==
    /\ view = NotRendered
    /\ call = NoCall
    /\ \E installment \in {maxMonthlyInstallment} :
       \E principal \in {maxLoanPrincipal(installment)} :
       \E rates \in {monthlyRates} :
          view' = Rendered(installment, principal, rates)
    /\ UNCHANGED <<monthlyIncome, interestRate, durationYears, ratePeriods, rateMode,
                   libm, call>>

\* ------------------------------------------------------------------------
\* Input snapshots
\* ------------------------------------------------------------------------
\* The slider offers durations of 5 to 25 years and the text fields take any
\* amount; the engine takes any number.  The model walks the engine's loops
\* over up to MaxYears years and up to MaxPeriods rate periods.

MaxYears == 2

MaxPeriods == 2

RateModes == {"single", "multi"}

PowRoundings == {"down", "up"}

\* form values, in hundredths (260000 is 2600.00)
Incomes == {0, 260000}

Rates == {0, 380, 480000}

PeriodRates == {400}

Durations == 0..MaxYears

RatePeriod == [years : 1..MaxYears, rate : PeriodRates]

\* the period lists of up to MaxYears + 1 years in all: a longer list is one
\* more list that matches no duration
PeriodLists ==
    {periods \in UNION {[1..n -> RatePeriod] : n \in 0..MaxPeriods} :
        sumPeriodYears(periods) <= MaxYears + 1}

Init ==
    /\ monthlyIncome \in Incomes
    /\ interestRate \in Rates
    /\ durationYears \in Durations
    /\ ratePeriods \in PeriodLists
    /\ rateMode \in RateModes
    /\ libm \in PowRoundings
    /\ view = NotRendered
    /\ call = NoCall

Next == Render

Spec == Init /\ [][Next]_vars

\* ------------------------------------------------------------------------
\* The engine functions applied directly
\* ------------------------------------------------------------------------
\* The functions are pure: each behaviour applies one of them once, to
\* arguments that need not come from the form.

\* amounts in hundredths
EngineAmounts == {-100, 0, 10000, 260000}

\* installments: two amounts that are not positive, a plain amount, and the
\* third of an income
Installments ==
    {Number(-100), Number(0), Number(10000),
     calculateMaxMonthlyInstallment(Number(260000))}

Principals == {Number(-100), Number(0), Number(250000), Number(10000000)}

EngineRates == {-100, 0, 380, 480000}

\* the decimal places of a rate: hundredths (380 is 3.80), and 15 places
\* (380 is 0.000 000 000 000 380)
RatePlaces == {2, 15}

\* a negative count, zero, a part of a year, and whole years
Months == {-12, 0, 5} \cup {12 * y : y \in 1..MaxYears}

EnginePeriod == [years : 1..MaxYears, rate : {0, 400}]

EnginePeriodLists ==
    {periods \in UNION {[1..n -> EnginePeriod] : n \in 0..MaxPeriods} :
        sumPeriodYears(periods) <= MaxYears + 1}

\* rate vectors: empty, shorter than a year, and whole years
RateVectors ==
    {Tuple([i \in 1..n |-> toMonthlyRate(Number(r))]) :
        n \in {0, 5, 12 * MaxYears}, r \in {0, 380}}

EngineInit ==
    /\ monthlyIncome = 260000
    /\ interestRate = DEFAULT_RATE
    /\ durationYears = 20
    /\ ratePeriods = <<>>
    /\ rateMode = "single"
    /\ libm \in PowRoundings
    /\ view = NotRendered
    /\ call = NoCall

Unchanged == UNCHANGED <<monthlyIncome, interestRate, durationYears, ratePeriods,
                         rateMode, libm, view>>

CallInstallment ==
    /\ call = NoCall
    /\ \E income \in EngineAmounts :
          call' = [fn |-> "calculateMaxMonthlyInstallment",
                   monthlyIncome |-> income,
                   threw |-> "",
                   ret |-> calculateMaxMonthlyInstallment(Number(income))]
    /\ Unchanged

CallSingle ==
    /\ call = NoCall
    /\ \E installment \in Installments, rate \in EngineRates, places \in RatePlaces,
          months \in Months :
          call' = [fn |-> "calculateLoanPrincipalWithSingleRate",
                   maxInstallment |-> installment,
                   annualRate |-> rate,
                   ratePlaces |-> places,
                   totalMonths |-> months,
                   threw |-> "",
                   ret |-> calculateLoanPrincipalWithSingleRate(installment,
                                                                Decimal(rate, places),
                                                                months)]
    /\ Unchanged

CallMultiple ==
    /\ call = NoCall
    /\ \E installment \in Installments, periods \in EnginePeriodLists, months \in Months :
          call' = [fn |-> "calculateLoanPrincipalWithMultipleRates",
                   maxInstallment |-> installment,
                   periods |-> periods,
                   totalMonths |-> months,
                   threw |-> "",
                   ret |-> calculateLoanPrincipalWithMultipleRates(installment, periods,
                                                                   months)]
    /\ Unchanged

CallRates ==
    /\ call = NoCall
    /\ \E mode \in RateModes, periods \in EnginePeriodLists, rate \in EngineRates,
          months \in Months :
          \E res \in {buildMonthlyRatesArray(mode, periods, Number(rate), months)} :
             call' = [fn |-> "buildMonthlyRatesArray",
                      rateMode |-> mode,
                      periods |-> periods,
                      singleRate |-> rate,
                      totalMonths |-> months,
                      threw |-> res.threw,
                      ret |-> res.val]
    /\ Unchanged

CallTable ==
    /\ call = NoCall
    /\ \E principal \in Principals, installment \in Installments, rates \in RateVectors,
          months \in Months :
          call' = [fn |-> "buildAmortizationTable",
                   maxLoanPrincipal |-> principal,
                   maxInstallment |-> installment,
                   monthlyRates |-> rates,
                   totalMonths |-> months,
                   threw |-> "",
                   ret |-> buildAmortizationTable(principal, installment, rates, months)]
    /\ Unchanged

EngineNext == CallInstallment \/ CallSingle \/ CallMultiple \/ CallRates \/ CallTable

EngineSpec == EngineInit /\ [][EngineNext]_vars

\* ------------------------------------------------------------------------
\* The form: the user's events and the auto-fill effect
\* ------------------------------------------------------------------------
\* Years are whole numbers here, as the slider and the years inputs give
\* them.  React runs the effect after the render that follows an event and
\* before the next event is handled: an event is taken only when the effect
\* has nothing left to write.

\* the largest number of years typed into a years input
MaxEditYears == 6

\* the slider: its marks, and its min
SliderValues == {0, 5, 10, 15, 20, 25}

\* the rates typed into a rate input, in hundredths
FormRates == {DEFAULT_RATE, 400}

\* a variant that sums the years of all the periods, the last included
sumExceptLast_all(list) == sumPeriodYears(list)

\* list.slice(0, lastIndex).reduce(...)
sumExceptLast(list) == sumPeriodYears(SubSeq(list, 1, Len(list) - 1))

\* a variant without the floor at 0
targetLastYears_unfloored(list, duration) == duration - sumExceptLast(list)

targetLastYears(list, duration) == MaxInt(duration - sumExceptLast(list), 0)

currentLastYears(list) == list[Len(list)].years

\* the effect gets as far as form.setFieldValue
autoFillWrites ==
    /\ rateMode = "multi"
    /\ ratePeriods # <<>>
    /\ durationYears > 0
    /\ currentLastYears(ratePeriods) # targetLastYears(ratePeriods, durationYears)

FormInit ==
    /\ monthlyIncome = 260000
    /\ interestRate = DEFAULT_RATE
    /\ durationYears = 20
    /\ ratePeriods = <<>>
    /\ rateMode = "single"
    /\ libm = "down"
    /\ view = NotRendered
    /\ call = NoCall

FormUnchanged == UNCHANGED <<monthlyIncome, interestRate, libm, view>>

\* the radio group
SetRateMode ==
    /\ ~autoFillWrites
    /\ \E v \in RateModes \ {rateMode} :
          /\ rateMode' = v
          /\ call' = [fn |-> "setRateMode", value |-> v]
    /\ UNCHANGED <<durationYears, ratePeriods>>
    /\ FormUnchanged

\* the slider
SetDuration ==
    /\ ~autoFillWrites
    /\ \E v \in SliderValues \ {durationYears} :
          /\ durationYears' = v
          /\ call' = [fn |-> "setDuration", value |-> v]
    /\ UNCHANGED <<rateMode, ratePeriods>>
    /\ FormUnchanged

\* years: remaining || 1
AddedYears(remaining) == IF remaining = 0 THEN 1 ELSE remaining

handleAddPeriod ==
    /\ ~autoFillWrites
    /\ rateMode = "multi"
    /\ Len(ratePeriods) < MaxPeriods
    /\ ratePeriods' =
          Append(ratePeriods,
                 [years |-> AddedYears(MaxInt(durationYears - sumPeriodYears(ratePeriods),
                                              0)),
                  rate |-> DEFAULT_RATE])
    /\ call' = [fn |-> "handleAddPeriod"]
    /\ UNCHANGED <<durationYears, rateMode>>
    /\ FormUnchanged

handleRemovePeriod ==
    /\ ~autoFillWrites
    /\ rateMode = "multi"
    /\ \E index \in DOMAIN ratePeriods :
          /\ ratePeriods' =
                SubSeq(ratePeriods, 1, index - 1)
                    \o SubSeq(ratePeriods, index + 1, Len(ratePeriods))
          /\ call' = [fn |-> "handleRemovePeriod", index |-> index]
    /\ UNCHANGED <<durationYears, rateMode>>
    /\ FormUnchanged

\* a years input; the last period's is disabled
EditYears ==
    /\ ~autoFillWrites
    /\ rateMode = "multi"
    /\ \E index \in 1..(Len(ratePeriods) - 1), v \in 1..MaxEditYears :
          /\ v # ratePeriods[index].years
          /\ ratePeriods' = [ratePeriods EXCEPT ![index].years = v]
          /\ call' = [fn |-> "editYears", index |-> index, value |-> v]
    /\ UNCHANGED <<durationYears, rateMode>>
    /\ FormUnchanged

\* a rate input
EditRate ==
    /\ ~autoFillWrites
    /\ rateMode = "multi"
    /\ \E index \in DOMAIN ratePeriods, v \in FormRates :
          /\ v # ratePeriods[index].rate
          /\ ratePeriods' = [ratePeriods EXCEPT ![index].rate = v]
          /\ call' = [fn |-> "editRate", index |-> index, value |-> v]
    /\ UNCHANGED <<durationYears, rateMode>>
    /\ FormUnchanged

\* the effect, when it writes; before keeps the list it found
AutoFill ==
    /\ autoFillWrites
    /\ ratePeriods' =
          [ratePeriods EXCEPT ![Len(ratePeriods)].years =
                                  targetLastYears(ratePeriods, durationYears)]
    /\ call' = [fn |-> "autoFill", before |-> ratePeriods]
    /\ UNCHANGED <<durationYears, rateMode>>
    /\ FormUnchanged

FormNext ==
    \/ SetRateMode
    \/ SetDuration
    \/ handleAddPeriod
    \/ handleRemovePeriod
    \/ EditYears
    \/ EditRate
    \/ AutoFill

FormSpec == FormInit /\ [][FormNext]_vars

\* ------------------------------------------------------------------------
\* The inline computation of LoanCapacity.backup.tsx
\* ------------------------------------------------------------------------
\* Its derived state (totalMonths, periodsActive, usePeriods,
\* periodsYearsTotal, periodsMismatch) is written as in LoanCapacity.tsx and
\* is read from the definitions above; its amortization loop is the loop of
\* TableMonths.

\* monthlyIncome > 0 ? monthlyIncome / 3 : 0
Backup_maxMonthlyInstallment ==
    IF FGt(Number(monthlyIncome), FZero(0))
    THEN FDiv(Number(monthlyIncome), FInt(3))
    ELSE FZero(0)

\* Number(period.rate) > 0 ? Number(period.rate) / 100 / 12 : 0
Backup_rMonthly(rate) ==
    IF FGt(rate, FZero(0)) THEN FDiv(FDiv(rate, FInt(100)), FInt(12)) ELSE FZero(0)

\* a variant that discounts by 1 - rMonthly
Backup_DiscountMonth_linear(rMonthly, st) ==
    Let(FMul(st.discountFactor, FSub(FInt(1), rMonthly)), LAMBDA discountFactor :
        [pvFactorSum |-> FAdd(st.pvFactorSum, discountFactor),
         discountFactor |-> discountFactor,
         monthsCount |-> st.monthsCount + 1])

\* discountFactor = discountFactor * (1 / (1 + rMonthly))
Backup_DiscountMonth(rMonthly, st) ==
    Let(FMul(st.discountFactor, FDiv(FInt(1), FAdd(FInt(1), rMonthly))),
        LAMBDA discountFactor :
            [pvFactorSum |-> FAdd(st.pvFactorSum, discountFactor),
             discountFactor |-> discountFactor,
             monthsCount |-> st.monthsCount + 1])

RECURSIVE Backup_DiscountMonths(_, _, _, _)
Backup_DiscountMonths(lo, hi, rMonthly, st) ==
    IF lo >= hi \/ st.monthsCount >= totalMonths THEN st
    ELSE IF hi = lo + 1 THEN Backup_DiscountMonth(rMonthly, st)
    ELSE Let(Backup_DiscountMonths(lo, (lo + hi) \div 2, rMonthly, st), LAMBDA half :
             Backup_DiscountMonths((lo + hi) \div 2, hi, rMonthly, half))

RECURSIVE Backup_DiscountPeriods(_, _)
Backup_DiscountPeriods(i, st) ==
    IF i > Len(ratePeriods) THEN st
    ELSE Let(Backup_rMonthly(Number(ratePeriods[i].rate)), LAMBDA rMonthly :
         Let(Backup_DiscountMonths(0, ratePeriods[i].years * 12, rMonthly, st),
             LAMBDA st1 :
                 IF st1.monthsCount >= totalMonths THEN st1
                 ELSE Backup_DiscountPeriods(i + 1, st1)))

\* the else branch: one rate over totalMonths
Backup_singleRatePrincipal(installment) ==
    Let(Backup_rMonthly(Number(interestRate)), LAMBDA monthlyRate :
        IF totalMonths <= 0 THEN FZero(0)
        ELSE IF FEq(monthlyRate, FZero(0))
        THEN FMul(installment, FInt(totalMonths))
        ELSE Let(MathPowNeg(FAdd(FInt(1), monthlyRate), totalMonths), LAMBDA pow :
             Let(FDiv(monthlyRate, FSub(FInt(1), pow)), LAMBDA denom :
                 FDiv(installment, denom))))

Backup_maxLoanPrincipal(installment) ==
    IF ~FGt(installment, FZero(0)) THEN FZero(0)
    ELSE IF usePeriods /\ ~periodsMismatch
         THEN FMul(installment,
                   Backup_DiscountPeriods(1, [pvFactorSum |-> FZero(0),
                                              discountFactor |-> FInt(1),
                                              monthsCount |-> 0]).pvFactorSum)
         ELSE Backup_singleRatePrincipal(installment)

RECURSIVE Backup_PushPeriods(_, _)
Backup_PushPeriods(i, rates) ==
    IF i > Len(ratePeriods) THEN rates
    ELSE Let(Backup_rMonthly(Number(ratePeriods[i].rate)), LAMBDA rate :
         Let(PushMonths(0, ratePeriods[i].years * 12, rate, totalMonths, rates),
             LAMBDA pushed :
                 IF Len(pushed) >= totalMonths THEN pushed
                 ELSE Backup_PushPeriods(i + 1, pushed)))

\* the month-to-rate map; the single-rate loop pushes, and pushes nothing
\* when totalMonths <= 0
Backup_monthlyRates ==
    IF usePeriods /\ ~periodsMismatch
    THEN Backup_PushPeriods(1, <<>>)
    ELSE Let(Backup_rMonthly(Number(interestRate)), LAMBDA rate :
             Tuple([i \in 1..totalMonths |-> rate]))

Backup_buildAmortizationTable(installment, principal) ==
    IF FLe(principal, FZero(0)) \/ totalMonths <= 0 THEN <<>>
    ELSE TableMonths(1, totalMonths, installment, Backup_monthlyRates,
                     [table |-> <<>>, remainingCapital |-> principal,
                      broke |-> FALSE]).table

\* what the backup component shows; nothing in it throws
Backup_Rendered(installment, principal) ==
    [threw |-> "",
     maxMonthlyInstallment |-> installment,
     maxLoanPrincipal |-> principal,
     amortizationTable |-> Backup_buildAmortizationTable(installment, principal)]

\* form values, in hundredths; 3200.00 is the backup's initial income
BothIncomes == {0, 320000}

BothRates == {0, 380}

BothInit ==
    /\ monthlyIncome \in BothIncomes
    /\ interestRate \in BothRates
    /\ durationYears \in Durations
    /\ ratePeriods \in PeriodLists
    /\ rateMode \in RateModes
    /\ libm \in PowRoundings
    /\ view = NotRendered
    /\ call = NoCall

\* One evaluation of each component on the same snapshot.
RenderBoth ==
    /\ view = NotRendered
    /\ call = NoCall
    /\ \E installment \in {maxMonthlyInstallment} :
       \E principal \in {maxLoanPrincipal(installment)} :
       \E rates \in {monthlyRates} :
       \E backupInstallment \in {Backup_maxMonthlyInstallment} :
       \E backupPrincipal \in {Backup_maxLoanPrincipal(backupInstallment)} :
          view' = [rendered |-> TRUE,
                   refactored |-> Rendered(installment, principal, rates),
                   backup |-> Backup_Rendered(backupInstallment, backupPrincipal)]
    /\ UNCHANGED <<monthlyIncome, interestRate, durationYears, ratePeriods, rateMode,
                   libm, call>>

BothNext == RenderBoth

BothSpec == BothInit /\ [][BothNext]_vars

\* ------------------------------------------------------------------------
\* Properties
\* ------------------------------------------------------------------------

FAbs(x) == [x EXCEPT !.s = 0]

\* "numerically equal": within 2^-30 of the scale
Tolerance == FDiv(FInt(1), FInt(2^30))

Within(x, y, scale) == FLe(FAbs(FSub(x, y)), FMul(Tolerance, FAbs(scale)))

RECURSIVE TotalYears(_)
TotalYears(periods) ==
    IF periods = <<>> THEN 0 ELSE Head(periods).years + TotalYears(Tail(periods))

Shown == view.rendered /\ view.threw = ""

\* the condition under which the multi-rate schedule is honoured
ScheduleValid ==
    rateMode = "multi" /\ ratePeriods # <<>> /\ TotalYears(ratePeriods) = durationYears

\* C1: in every evaluation the effective mode is Multi exactly when rateMode
\* is "multi", ratePeriods is non-empty and the periods' years sum to
\* durationYears; otherwise it is Single and the principal is the single-rate
\* principal at the annual rate.
C1_EffectiveMode ==
    Shown =>
        /\ view.principalMode = (IF ScheduleValid THEN "multi" ELSE "single")
        /\ ~ScheduleValid =>
              view.maxLoanPrincipal =
                  calculateLoanPrincipalWithSingleRate(view.maxMonthlyInstallment,
                                                       Number(interestRate),
                                                       12 * durationYears)

\* Multi is requested with periods that sum to another number of years than
\* the duration, and the evaluation shows a positive single-rate principal.
C1_Witness ==
    /\ Shown
    /\ rateMode = "multi"
    /\ ratePeriods # <<>>
    /\ TotalYears(ratePeriods) # durationYears
    /\ view.principalMode = "single"
    /\ FGt(view.maxLoanPrincipal, FZero(0))

\* C2: in every evaluation the principal and the rate vector come from the
\* same mode: either the multi-rate principal with the vector expanded from
\* the periods, or the single-rate principal with the vector filled with the
\* single rate.
C2_SameMode ==
    Shown =>
        /\ view.principalMode = view.ratesMode
        /\ \/ /\ view.maxLoanPrincipal =
                    calculateLoanPrincipalWithMultipleRates(view.maxMonthlyInstallment,
                                                            ratePeriods, 12 * durationYears)
              /\ view.monthlyRates = PushPeriods(ratePeriods, 1, 12 * durationYears, <<>>)
           \/ /\ view.maxLoanPrincipal =
                    calculateLoanPrincipalWithSingleRate(view.maxMonthlyInstallment,
                                                         Number(interestRate),
                                                         12 * durationYears)
              /\ \A m \in DOMAIN view.monthlyRates :
                    view.monthlyRates[m] = toMonthlyRate(Number(interestRate))

\* An evaluation in Multi mode whose principal is positive and whose rate
\* vector holds the periods' rate, not the single rate.
C2_Witness ==
    /\ Shown
    /\ view.principalMode = "multi"
    /\ view.ratesMode = "multi"
    /\ FGt(view.maxLoanPrincipal, FZero(0))
    /\ view.monthlyRates # <<>>
    /\ view.monthlyRates[1] # toMonthlyRate(Number(interestRate))

TableCall == call.fn = "buildAmortizationTable"

\* the rate of a month: the vector's entry, 0 past its end
RateOf(rates, month) == IF month <= Len(rates) THEN rates[month] ELSE FZero(0)

RowHolds(row, rates) ==
    /\ FEq(row.interest, FMul(row.capitalBefore, RateOf(rates, row.month)))
    /\ row.amortization = FSub(row.installment, row.interest)
    /\ row.capitalAfter = MathMax(FSub(row.capitalBefore, row.amortization), FZero(0))
    /\ FGe(row.capitalAfter, FZero(0))

\* C3: every row of every table has interest = capitalBefore times the rate
\* of its month (0 past the end of the vector), amortization = installment -
\* interest, unclamped, and capitalAfter = max(capitalBefore - amortization,
\* 0), so capitalAfter >= 0.
C3_RowEquations ==
    TableCall =>
        \A i \in DOMAIN call.ret :
            /\ call.ret[i].installment = call.maxInstallment
            /\ RowHolds(call.ret[i], call.monthlyRates)

\* A table with a month of negative amortization: the interest exceeds the
\* installment and the capital grows.
C3_Witness ==
    /\ TableCall
    /\ \E i \in DOMAIN call.ret :
          /\ FLt(call.ret[i].amortization, FZero(0))
          /\ FGt(call.ret[i].capitalAfter, call.ret[i].capitalBefore)

\* C4: the first row has month 1 and capitalBefore equal to the principal
\* passed in; row k+1 has month k+1 and capitalBefore equal to row k's
\* capitalAfter.
C4_RowsChained ==
    TableCall =>
        \A i \in DOMAIN call.ret :
            /\ call.ret[i].month = i
            /\ call.ret[i].capitalBefore =
                  (IF i = 1 THEN call.maxLoanPrincipal ELSE call.ret[i - 1].capitalAfter)

\* A table of several rows whose capital changes from month to month.
C4_Witness ==
    /\ TableCall
    /\ Len(call.ret) >= 3
    /\ call.ret[2].capitalBefore # call.maxLoanPrincipal
    /\ call.ret[3].capitalBefore # call.ret[2].capitalBefore

\* C5: a table has at most totalMonths rows; every row but the last has
\* capitalAfter > 0; a table shorter than totalMonths, for a positive
\* principal and totalMonths, ends with capitalAfter = 0.
C5_EarlyStop ==
    TableCall =>
        /\ Len(call.ret) <= MaxInt(call.totalMonths, 0)
        /\ \A i \in 1..(Len(call.ret) - 1) : FGt(call.ret[i].capitalAfter, FZero(0))
        /\ (/\ FGt(call.maxLoanPrincipal, FZero(0))
            /\ call.totalMonths > 0
            /\ Len(call.ret) < call.totalMonths)
           => /\ call.ret # <<>>
              /\ IsZero(call.ret[Len(call.ret)].capitalAfter)

\* A loan paid off early: several rows, fewer than totalMonths.
C5_Witness ==
    /\ TableCall
    /\ Len(call.ret) >= 2
    /\ Len(call.ret) < call.totalMonths

\* C6: no engine function throws; on a non-positive income, installment or
\* totalMonths, or on empty periods, the three capacity functions return 0
\* and the two builders return an empty sequence.
C6_NeverThrows ==
    /\ call.fn # "none" => call.threw = ""
    /\ call.fn = "calculateMaxMonthlyInstallment" /\ call.monthlyIncome <= 0
          => IsZero(call.ret)
    /\ call.fn = "calculateLoanPrincipalWithSingleRate"
          /\ (call.totalMonths <= 0 \/ FLe(call.maxInstallment, FZero(0)))
          => IsZero(call.ret)
    /\ call.fn = "calculateLoanPrincipalWithMultipleRates"
          /\ (\/ call.totalMonths <= 0
              \/ FLe(call.maxInstallment, FZero(0))
              \/ call.periods = <<>>)
          => IsZero(call.ret)
    /\ call.fn = "buildMonthlyRatesArray" /\ call.totalMonths <= 0
          => call.ret = <<>>
    /\ TableCall /\ (call.totalMonths <= 0 \/ FLe(call.maxLoanPrincipal, FZero(0)))
          => call.ret = <<>>

RatesCall == call.fn = "buildMonthlyRatesArray"

\* C7, as the source has it: for totalMonths >= 0 the Single vector has
\* exactly totalMonths entries, and the Multi vector has the months of its
\* periods, cut at totalMonths: min(totalMonths, 12 * the periods' years).
C7_RatesLength ==
    RatesCall /\ call.totalMonths >= 0 =>
        /\ call.threw = ""
        /\ Len(call.ret) =
              (IF call.rateMode = "multi"
               THEN MinInt(call.totalMonths, 12 * TotalYears(call.periods))
               ELSE call.totalMonths)

\* Multi mode with periods that end before totalMonths: the vector is the
\* shorter one.
C7_Witness ==
    /\ RatesCall
    /\ call.rateMode = "multi"
    /\ call.periods # <<>>
    /\ 12 * TotalYears(call.periods) < call.totalMonths
    /\ Len(call.ret) = 12 * TotalYears(call.periods)

\* C7 as stated: for every mode and totalMonths >= 0 the vector has exactly
\* totalMonths entries.
C7_ExactlyTotalMonths ==
    RatesCall /\ call.totalMonths >= 0 =>
        call.threw = "" /\ Len(call.ret) = call.totalMonths

\* a single-rate call for whole years, a positive installment and a rate >= 0
WholeYearsCall ==
    /\ call.fn = "calculateLoanPrincipalWithSingleRate"
    /\ call.ratePlaces = 2
    /\ call.totalMonths >= 12
    /\ call.totalMonths % 12 = 0
    /\ FGt(call.maxInstallment, FZero(0))
    /\ call.annualRate >= 0

\* the multi-rate principal for one period of the call's years and rate
OnePeriodPrincipal ==
    calculateLoanPrincipalWithMultipleRates(
        call.maxInstallment,
        <<[years |-> call.totalMonths \div 12, rate |-> call.annualRate]>>,
        call.totalMonths)

RoundTrip == Shown /\ view.amortizationTable # <<>>

LastRow == view.amortizationTable[Len(view.amortizationTable)]

\* the rate of the evaluation, in hundredths of a percent
RoundTripRate ==
    IF view.principalMode = "multi" THEN ratePeriods[1].rate ELSE interestRate

ZeroRate ==
    /\ Shown
    /\ view.principalMode = "single"
    /\ interestRate = 0
    /\ FGt(view.maxMonthlyInstallment, FZero(0))
    /\ view.totalMonths > 0

LinearRow(row) ==
    /\ IsZero(row.interest)
    /\ row.amortization = view.maxMonthlyInstallment
    /\ row.capitalAfter =
          MathMax(FSub(row.capitalBefore, view.maxMonthlyInstallment), FZero(0))
    /\ Within(row.capitalAfter,
              FSub(view.maxLoanPrincipal,
                   FMul(FInt(row.month), view.maxMonthlyInstallment)),
              view.maxLoanPrincipal)

\* C10, as the source has it: at rate 0 in Single mode, with installment > 0
\* and totalMonths > 0, the principal is the product installment *
\* totalMonths, the table has totalMonths rows, every row has interest 0 and
\* amortization equal to the installment, each capitalAfter is the rounded
\* capitalBefore - installment, within 2^-30 of the principal of principal -
\* k * installment, and the last capitalAfter is within 2^-30 of the
\* principal of 0.
C10_ZeroRateLinear ==
    ZeroRate =>
        /\ view.maxLoanPrincipal =
              FMul(view.maxMonthlyInstallment, FInt(view.totalMonths))
        /\ Len(view.amortizationTable) = view.totalMonths
        /\ \A i \in DOMAIN view.amortizationTable : LinearRow(view.amortizationTable[i])
        /\ Within(LastRow.capitalAfter, FZero(0), view.maxLoanPrincipal)

\* A zero-rate table whose last capitalAfter is small and not 0.
C10_Witness ==
    /\ ZeroRate
    /\ Len(view.amortizationTable) = view.totalMonths
    /\ ~IsZero(LastRow.capitalAfter)
    /\ Within(LastRow.capitalAfter, FZero(0), view.maxLoanPrincipal)

\* C10 as stated: the last row ends at capitalAfter = 0.
C10_EndsAtZero == ZeroRate => IsZero(LastRow.capitalAfter)

SingleCall == call.fn = "calculateLoanPrincipalWithSingleRate"

\* C11: for a fixed installment > 0 and totalMonths > 0 the single-rate
\* principal decreases in the rate: the principal of a call at rate b is
\* lower than the principal at every rate a with 0 <= a < b.
C11_DecreasingInRate ==
    SingleCall /\ FGt(call.maxInstallment, FZero(0)) /\ call.totalMonths > 0 =>
        \A a \in EngineRates, places \in RatePlaces :
            a >= 0 /\ FLt(Decimal(a, places), Decimal(call.annualRate, call.ratePlaces))
            => FLt(call.ret,
                   calculateLoanPrincipalWithSingleRate(call.maxInstallment,
                                                        Decimal(a, places),
                                                        call.totalMonths))

\* C12: calculateMaxMonthlyInstallment returns exactly monthlyIncome / 3 for
\* monthlyIncome > 0 and 0 for monthlyIncome <= 0.
C12_ExactThird ==
    call.fn = "calculateMaxMonthlyInstallment" =>
        call.ret = (IF call.monthlyIncome > 0
                    THEN FDiv(Number(call.monthlyIncome), FInt(3))
                    ELSE FZero(0))

\* C12, as the source has it: for monthlyIncome > 0 the result is the rounded
\* product of monthlyIncome and the double nearest to 1/3, which is
\* monthlyIncome / 3 up to rounding (within 2^-30 of it); for monthlyIncome
\* <= 0 it is 0.
C12_ProductWithThird ==
    call.fn = "calculateMaxMonthlyInstallment" =>
        IF call.monthlyIncome > 0
        THEN /\ call.ret = FMul(Number(call.monthlyIncome), FDiv(FInt(1), FInt(3)))
             /\ Within(call.ret, FDiv(Number(call.monthlyIncome), FInt(3)), call.ret)
        ELSE call.ret = FZero(0)

\* An income whose third and whose product with the ratio are different
\* doubles.
C12_Witness ==
    /\ call.fn = "calculateMaxMonthlyInstallment"
    /\ call.monthlyIncome > 0
    /\ call.ret # FDiv(Number(call.monthlyIncome), FInt(3))

MultipleCall == call.fn = "calculateLoanPrincipalWithMultipleRates"

\* the months of the first i periods
RECURSIVE PrefixMonths(_, _)
PrefixMonths(periods, i) ==
    IF i = 0 THEN 0 ELSE PrefixMonths(periods, i - 1) + 12 * periods[i].years

\* the period that contains month j (months count from 1)
PeriodOfMonth(periods, j) ==
    CHOOSE i \in 1..Len(periods) :
        PrefixMonths(periods, i - 1) < j /\ j <= PrefixMonths(periods, i)

\* the monthly rate of each period
PeriodMonthlyRates(periods) ==
    Tuple([i \in DOMAIN periods |-> toMonthlyRate(Number(periods[i].rate))])

\* r_1 .. r_n: r_j is the monthly rate of the period that contains month j
MonthRates(periods, n) ==
    Let(PeriodMonthlyRates(periods), LAMBDA rates :
        Tuple([j \in 1..n |-> rates[PeriodOfMonth(periods, j)]]))

\* one more month: the factor divided by 1 + rate, and added to the sum
AnnuityMonth(rate, st) ==
    Let(FDiv(st.factor, FAdd(FInt(1), rate)), LAMBDA factor :
        [sum |-> FAdd(st.sum, factor), factor |-> factor])

RECURSIVE AnnuityMonths(_, _, _, _)
AnnuityMonths(rates, lo, hi, st) ==
    IF lo > hi THEN st
    ELSE IF lo = hi THEN AnnuityMonth(rates[lo], st)
    ELSE Let(AnnuityMonths(rates, lo, (lo + hi) \div 2, st), LAMBDA half :
             AnnuityMonths(rates, (lo + hi) \div 2 + 1, hi, half))

\* sum over k = 1..Len(rates) of the product over j = 1..k of 1/(1 + rates[j])
AnnuitySum(rates) ==
    AnnuityMonths(rates, 1, Len(rates), [sum |-> FZero(0), factor |-> FInt(1)]).sum

\* N = min(totalMonths, 12 * sum of the periods' years)
WalkLength(periods, months) == MinInt(months, 12 * TotalYears(periods))

\* the capacity walk's loops over the periods, from before the first month
Walk(periods, months) ==
    DiscountPeriods(periods, 1, months,
                    [pvFactorSum |-> FZero(0), discountFactor |-> FInt(1),
                     monthsCount |-> 0])

\* the months the capacity walk has counted when it ends
MonthsDiscounted(periods, months) ==
    IF months <= 0 \/ periods = <<>> THEN 0 ELSE Walk(periods, months).monthsCount

\* C13: the multi-rate walk counts exactly N = min(totalMonths, 12 * sum of
\* the periods' years) months and returns installment * sum over k = 1..N of
\* the product over j = 1..k of 1/(1 + r_j), r_j the monthly rate of the
\* period that contains month j; the factor is carried over the period
\* boundaries.
C13_CompoundedWalk ==
    (/\ MultipleCall
     /\ FGt(call.maxInstallment, FZero(0))
     /\ call.totalMonths > 0
     /\ call.periods # <<>>)
    => /\ MonthsDiscounted(call.periods, call.totalMonths) =
              WalkLength(call.periods, call.totalMonths)
       /\ call.ret =
              FMul(call.maxInstallment,
                   AnnuitySum(MonthRates(call.periods,
                                         WalkLength(call.periods, call.totalMonths))))

\* A walk over two periods of different rates that goes past the first one.
C13_Witness ==
    /\ MultipleCall
    /\ Len(call.periods) = 2
    /\ call.periods[1].rate # call.periods[2].rate
    /\ call.totalMonths > 12 * call.periods[1].years
    /\ FGt(call.ret, FZero(0))

\* C14: in Multi mode the rate vector has as many entries as the capacity
\* walk counts months, entry i is the monthly rate of the period that
\* contains month i, and discounting along the vector gives the walk's sum.
\* The single rate is not read in Multi mode: the walk itself is run beside
\* the calls that pass the default single rate, and the other calls are
\* held to the length N of the walk.
C14_SameWalk ==
    RatesCall /\ call.rateMode = "multi" =>
        /\ call.threw = ""
        /\ call.ret = MonthRates(call.periods, Len(call.ret))
        /\ IF call.totalMonths <= 0 \/ call.periods = <<>>
           THEN call.ret = <<>>
           ELSE /\ Len(call.ret) = WalkLength(call.periods, call.totalMonths)
                /\ call.singleRate = DEFAULT_RATE =>
                      Let(Walk(call.periods, call.totalMonths), LAMBDA st :
                          /\ Len(call.ret) = st.monthsCount
                          /\ st.pvFactorSum = AnnuitySum(call.ret))

\* A vector over two periods of different rates, cut inside the second one.
C14_Witness ==
    /\ RatesCall
    /\ call.rateMode = "multi"
    /\ Len(call.periods) = 2
    /\ call.periods[1].rate # call.periods[2].rate
    /\ Len(call.ret) = call.totalMonths
    /\ call.totalMonths > 12 * call.periods[1].years
    /\ call.totalMonths < 12 * TotalYears(call.periods)
    /\ call.singleRate = DEFAULT_RATE
    /\ call.ret[1] # call.ret[Len(call.ret)]

\* C15: a month past the end of the rate vector is processed with rate 0:
\* its interest is 0 and its amortization is the installment; no error is
\* raised.
C15_PastTheEnd ==
    TableCall =>
        /\ call.threw = ""
        /\ \A i \in DOMAIN call.ret :
              i > Len(call.monthlyRates) =>
                  /\ IsZero(call.ret[i].interest)
                  /\ call.ret[i].amortization = call.maxInstallment

\* A table that goes on past the end of a vector of positive rates.
C15_Witness ==
    /\ TableCall
    /\ call.monthlyRates # <<>>
    /\ ~IsZero(call.monthlyRates[Len(call.monthlyRates)])
    /\ Len(call.ret) > Len(call.monthlyRates)
    /\ ~IsZero(call.ret[1].interest)

\* C17: in every evaluation the amortization table is non-empty exactly when
\* maxLoanPrincipal > 0; a positive principal comes with totalMonths > 0.
C17_TableIffPrincipal ==
    Shown =>
        /\ view.amortizationTable # <<>> <=> FGt(view.maxLoanPrincipal, FZero(0))
        /\ FGt(view.maxLoanPrincipal, FZero(0)) => view.totalMonths > 0

\* An evaluation with a positive income and duration 0: no principal, no rows.
C17_Witness ==
    /\ Shown
    /\ FGt(view.maxMonthlyInstallment, FZero(0))
    /\ view.totalMonths = 0
    /\ view.amortizationTable = <<>>
    /\ IsZero(view.maxLoanPrincipal)

\* the years of the periods other than the last
OthersYears == TotalYears(SubSeq(ratePeriods, 1, Len(ratePeriods) - 1))

LastPeriod == ratePeriods[Len(ratePeriods)]

\* C16: in every reachable form state, when Multi is the effective mode every
\* rate period has years >= 1.
C16_PositiveYears ==
    usePeriods /\ ~periodsMismatch =>
        \A i \in DOMAIN ratePeriods : ratePeriods[i].years >= 1

AfterAutoFill == call.fn = "autoFill"

\* C18: after the effect has written, running it again writes nothing; in
\* Single mode, with no periods or with duration <= 0 it writes nothing.
C18_AutoFillSettles ==
    /\ AfterAutoFill => ~ENABLED AutoFill
    /\ (rateMode # "multi" \/ ratePeriods = <<>> \/ durationYears <= 0)
          => ~ENABLED AutoFill

\* The effect has just written the last period's years.
C18_Witness ==
    /\ AfterAutoFill
    /\ ratePeriods # call.before
    /\ ~ENABLED AutoFill

\* the effect has nothing to write, in multi mode with periods and duration > 0
Settled ==
    /\ rateMode = "multi"
    /\ ratePeriods # <<>>
    /\ durationYears > 0
    /\ ~ENABLED AutoFill

\* C19: the effect changes the years of the last period only; once it has
\* settled in multi mode with periods and duration > 0, the last period's
\* years are max(duration - the others' years, 0), and the periods sum to the
\* duration (Multi is effective, no mismatch) exactly when the others' years
\* are at most the duration.
C19_SettledSchedule ==
    /\ AfterAutoFill =>
          /\ Len(ratePeriods) = Len(call.before)
          /\ \A i \in DOMAIN ratePeriods :
                /\ ratePeriods[i].rate = call.before[i].rate
                /\ i < Len(ratePeriods) => ratePeriods[i].years = call.before[i].years
    /\ Settled =>
          /\ LastPeriod.years = MaxInt(durationYears - OthersYears, 0)
          /\ (TotalYears(ratePeriods) = durationYears) <=> (OthersYears <= durationYears)
          /\ (usePeriods /\ ~periodsMismatch) <=> (OthersYears <= durationYears)

\* The effect has settled on a schedule whose other periods exceed the
\* duration: the last period has 0 years and the mismatch stays.
C19_Witness ==
    /\ AfterAutoFill
    /\ Settled
    /\ OthersYears > durationYears
    /\ LastPeriod.years = 0
    /\ periodsMismatch

\* both components have been evaluated and neither has thrown
BothShown ==
    /\ view.rendered
    /\ view.refactored.threw = ""
    /\ view.backup.threw = ""

SameRow(a, b) ==
    /\ a.month = b.month
    /\ FEq(a.capitalBefore, b.capitalBefore)
    /\ FEq(a.interest, b.interest)
    /\ FEq(a.amortization, b.amortization)
    /\ FEq(a.installment, b.installment)
    /\ FEq(a.capitalAfter, b.capitalAfter)

CloseRow(a, b, scale) ==
    /\ a.month = b.month
    /\ Within(a.capitalBefore, b.capitalBefore, scale)
    /\ Within(a.interest, b.interest, scale)
    /\ Within(a.amortization, b.amortization, scale)
    /\ Within(a.installment, b.installment, scale)
    /\ Within(a.capitalAfter, b.capitalAfter, scale)

====
